---- MODULE Spec2Model ----
(***************************************************************************)
(* Model of the ResoMaterialYou palette service (src/src/main.rs).         *)
(*                                                                         *)
(* Every request is served by its own task.  A task walks through the      *)
(* router, the trace layer, the handler's extractor, the handler body and  *)
(* the conversion of the handler's result into an HTTP response.  Strings  *)
(* that the program inspects or builds character by character (colour      *)
(* strings, response bodies) are sequences of one-character strings.       *)
(*                                                                         *)
(* The colour science of the material_colors crate is outside the          *)
(* repository; it is represented by deterministic stand-in functions of    *)
(* the same shape (Harmonize, Tone, SchemeTone).                           *)
(***************************************************************************)
EXTENDS Integers, Sequences, FiniteSets, TLC

\* ------------------------------------------------------------------ bounds

\* Number of requests (tasks) that can be in flight together.
NumTasks == 2

\* Number of roles a scheme of the provider iterates over.
NumSchemeRoles == 2

Tasks == 1..NumTasks
SchemeRoles == 1..NumSchemeRoles

\* Option values: None, Some(v)
None == [none |-> TRUE]
Some(v) == [some |-> v]

\* ------------------------------------------------------------- characters

LowerHex == <<"0","1","2","3","4","5","6","7","8","9","a","b","c","d","e","f">>
UpperHex == <<"0","1","2","3","4","5","6","7","8","9","A","B","C","D","E","F">>

IsHexDigit(c) == \E i \in 1..16 : LowerHex[i] = c \/ UpperHex[i] = c

DigitVal(c) == (CHOOSE i \in 1..16 : LowerHex[i] = c \/ UpperHex[i] = c) - 1

AllHex(s) == \A i \in 1..Len(s) : IsHexDigit(s[i])

RECURSIVE Concat(_)
\* join("") of a vector of strings
Concat(ss) == IF ss = <<>> THEN <<>> ELSE Head(ss) \o Concat(Tail(ss))

\* ------------------------------------------------- colours (Argb) and hex

Ok(v) == [ok |-> TRUE, value |-> v]
Err(e) == [ok |-> FALSE, error |-> e]

Byte(hi, lo) == 16 * DigitVal(hi) + DigitVal(lo)

\* Argb::from_str: an optional leading '#', then 3, 6 or 8 hex digits
\* (rgb, rrggbb, aarrggbb); anything else is a parse error.
ArgbFromStr(s) ==
    LET h == IF Len(s) > 0 /\ s[1] = "#" THEN Tail(s) ELSE s
    IN  IF Len(h) \notin {3, 6, 8} \/ ~AllHex(h)
        THEN Err([kind |-> "ParseRgbError", input |-> s])
        ELSE IF Len(h) = 3
             THEN Ok([alpha |-> 255, red |-> Byte(h[1], h[1]),
                      green |-> Byte(h[2], h[2]), blue |-> Byte(h[3], h[3])])
        ELSE IF Len(h) = 6
             THEN Ok([alpha |-> 255, red |-> Byte(h[1], h[2]),
                      green |-> Byte(h[3], h[4]), blue |-> Byte(h[5], h[6])])
        ELSE Ok([alpha |-> Byte(h[1], h[2]), red |-> Byte(h[3], h[4]),
                 green |-> Byte(h[5], h[6]), blue |-> Byte(h[7], h[8])])

HexByte(b) == <<LowerHex[(b \div 16) + 1], LowerHex[(b % 16) + 1]>>

\* Argb::to_hex with a leading '#' (the provider's to_hex_with_pound)
ToHexWithPound(c) == <<"#">> \o HexByte(c.red) \o HexByte(c.green) \o HexByte(c.blue)

\* Argb::to_hex: six lower-case hex digits, zero padded, no '#', no alpha
ToHex(c) == HexByte(c.red) \o HexByte(c.green) \o HexByte(c.blue)


\* ------------------------------------- Color Theme Provider (external crate)

\* Stand-in for Blend::harmonize: moves the design colour toward the source.
Harmonize(design, source) ==
    [alpha |-> 255,
     red   |-> (design.red + source.red) \div 2,
     green |-> (design.green + source.green) \div 2,
     blue  |-> (design.blue + source.blue) \div 2]

\* Stand-in for TonalPalette::tone: the colour at tone t (0..100).
Tone(c, t) ==
    [alpha |-> 255,
     red   |-> (c.red * t) \div 100,
     green |-> (c.green * t) \div 100,
     blue  |-> (c.blue * t) \div 100]

\* Stand-in for the tone a scheme gives role i; light and dark never agree.
SchemeTone(mode, i) ==
    IF mode = "Light" THEN 41 + 2 * (i % 20) ELSE 60 + 2 * (i % 20)

\* One scheme: (role, colour) pairs in the provider's iteration order.
Scheme(source, mode) ==
    [i \in SchemeRoles |-> <<i, Tone(source, SchemeTone(mode, i))>>]

\* The provider's colour group of one custom colour, for both modes.
CustomColorGroup(source, cc) ==
    LET value == IF cc.blend THEN Harmonize(cc.value, source) ELSE cc.value
    IN  [color |-> cc,
         value |-> value,
         light |-> [color |-> Tone(value, 40), on_color |-> Tone(value, 100),
                    color_container |-> Tone(value, 90),
                    on_color_container |-> Tone(value, 10)],
         dark  |-> [color |-> Tone(value, 80), on_color |-> Tone(value, 20),
                    color_container |-> Tone(value, 30),
                    on_color_container |-> Tone(value, 90)]]

\* ThemeBuilder::with_source(source).custom_colors(ccs).build()
ThemeBuild(source, ccs) ==
    [source        |-> source,
     schemes       |-> [light |-> Scheme(source, "Light"),
                        dark  |-> Scheme(source, "Dark")],
     custom_colors |-> [k \in 1..Len(ccs) |-> CustomColorGroup(source, ccs[k])]]

\* ------------------------------------------------------- fixed custom colours

\* The seven fixed colours as written in the handler: hex literal, name, blend.
CustomColorSpecs ==
    << [hex |-> <<"F","F","7","6","7","6">>, name |-> "red",    blend |-> TRUE],
       [hex |-> <<"5","9","E","B","5","C">>, name |-> "green",  blend |-> TRUE],
       [hex |-> <<"0","0","0","0","F","F">>, name |-> "blue",   blend |-> TRUE],
       [hex |-> <<"F","8","F","7","7","0">>, name |-> "yellow", blend |-> FALSE],
       [hex |-> <<"B","A","6","4","F","2">>, name |-> "purple", blend |-> TRUE],
       [hex |-> <<"6","1","D","1","F","A">>, name |-> "cyan",   blend |-> TRUE],
       [hex |-> <<"E","6","9","E","5","0">>, name |-> "orange", blend |-> FALSE] >>

\* --------------------------------------------------------------- requests

\* base_color values a client may send: a colour, a string that is no hex, a
\* hex string of odd length, the empty string.
BaseColorInputs ==
    { <<"0","A","5","B","C","7">>,
      <<"z","z","z","z","z","z">>,
      <<"F","F","0","0","0">>,
      <<>> }

\* theme_type values a client may send.
ThemeTypeInputs == {"Dark", "Light", "dark"}

\* Query strings a client may send.
QueryInputs == [base_color : BaseColorInputs, theme_type : ThemeTypeInputs]

\* Query strings sent to / (the handler of / does not look at them).
RootQueryInputs ==
    { [base_color |-> <<"0","A","5","B","C","7">>, theme_type |-> "Dark"],
      [base_color |-> <<>>, theme_type |-> "Purple"] }

\* The GET requests a client may send to the two registered routes.
Requests ==
    [method : {"GET"}, uri : [path : {"/getPalette"}, query : QueryInputs]]
      \cup [method : {"GET"}, uri : [path : {"/"}, query : RootQueryInputs]]

\* ----------------------------------------------------------------- state

VARIABLES
    pc,            \* where each task is
    request,       \* the HTTP request a task serves
    matched_path,  \* the MatchedPath extension the router adds to the request
    span,          \* the tracing span of the request
    query,         \* the handler's deserialized PaletteQuery
    theme,         \* the handler's theme
    result,        \* what the handler (or its extractor) returned
    response,      \* the HTTP response sent
    events         \* the log events emitted in the request's span, in order

vars == <<pc, request, matched_path, span, query, theme, result, response, events>>

\* ------------------------------------------------------ router and handlers

\* Router::route: the handler registered for a path.
RouteHandler(path) == IF path = "/getPalette" THEN "get_palette" ELSE "hello_world"

\* Every handler takes the Query extractor (a plausible slip; hello_world takes none).
HandlerExtractsQueryAlways(handler) == TRUE

\* Whether a handler's signature has the Query<PaletteQuery> extractor.
HandlerExtractsQuery(handler) == handler = "get_palette"

\* make_span_with: debug_span!("request", %method, %uri, matched_path), where
\* mp is the MatchedPath extension of the request, if it has one.
MakeSpanWith(req, mp) == [name |-> "request", method |-> req.method, uri |-> req.uri,
                          matched_path |-> mp]

\* theme_type deserialized ignoring case.
DeserializeThemeTypeAnyCase(s) ==
    IF s \in {"Dark", "dark"} THEN Ok("Dark")
    ELSE IF s \in {"Light", "light"} THEN Ok("Light")
    ELSE Err([kind |-> "QueryRejection", input |-> s])

\* Deserialize for ThemeType: exactly the variant names Dark and Light.
DeserializeThemeType(s) ==
    IF s \in {"Dark", "Light"} THEN Ok(s)
    ELSE Err([kind |-> "QueryRejection", input |-> s])

\* Query<PaletteQuery>: base_color is any string, theme_type a ThemeType.
DeserializeQuery(q) ==
    LET tt == DeserializeThemeType(q.theme_type)
    IN  IF tt.ok THEN Ok([base_color |-> q.base_color, theme_type |-> tt.value])
        ELSE Err(tt.error)

\* The body of hello_world.
HelloWorld == <<"H","e","l","l","o",","," ","w","o","r","l","d","!">>

\* --------------------------------------------------------------- get_palette

InfoGenerating(q) ==
    [level |-> "INFO",
     message |-> <<"Generating {:?} theme with color string {:?}",
                   q.theme_type, q.base_color>>]

InfoGenerated(final_string) ==
    [level |-> "INFO", message |-> <<"Generated theme: {:?}", final_string>>]

\* The handler up to .build(): the seven literals and base_color are parsed
\* with `?`, so the first parse error is returned.
GetPaletteBuild(q) ==
    LET parsed == [k \in 1..Len(CustomColorSpecs) |-> ArgbFromStr(CustomColorSpecs[k].hex)]
        bad == {k \in 1..Len(CustomColorSpecs) : ~parsed[k].ok}
        custom_colors == [k \in 1..Len(CustomColorSpecs) |->
                            [value |-> parsed[k].value,
                             name  |-> CustomColorSpecs[k].name,
                             blend |-> CustomColorSpecs[k].blend]]
        source == ArgbFromStr(q.base_color)
    IN  IF bad # {} THEN Err(parsed[CHOOSE k \in bad : \A j \in bad : k <= j].error)
        ELSE IF ~source.ok THEN Err(source.error)
        ELSE Ok(ThemeBuild(source.value, custom_colors))

\* base_theme_string: the hex of every (role, colour) of the selected scheme.
BaseThemeString(th, theme_type) ==
    LET scheme == IF theme_type = "Dark" THEN th.schemes.dark ELSE th.schemes.light
    IN  Concat([i \in 1..Len(scheme) |-> ToHex(scheme[i][2])])

\* The custom colour blocks taken from the light variants whatever the theme type.
CustomColorsStringLightOnly(th, theme_type) ==
    Concat([k \in 1..Len(th.custom_colors) |->
              LET x == th.custom_colors[k]
              IN  ToHex(x.light.color) \o ToHex(x.light.color_container)
                    \o ToHex(x.light.on_color) \o ToHex(x.light.on_color_container)])

\* The custom colour blocks printed in the provider's field order.
CustomColorsStringFieldOrder(th, theme_type) ==
    Concat([k \in 1..Len(th.custom_colors) |->
              LET x == th.custom_colors[k]
                  m == IF theme_type = "Dark" THEN x.dark ELSE x.light
              IN  ToHex(m.color) \o ToHex(m.on_color)
                    \o ToHex(m.color_container) \o ToHex(m.on_color_container)])

\* custom_colors_string: per custom colour, four hex strings of the selected mode.
CustomColorsString(th, theme_type) ==
    Concat([k \in 1..Len(th.custom_colors) |->
              LET x == th.custom_colors[k]
                  m == IF theme_type = "Dark" THEN x.dark ELSE x.light
              IN  ToHex(m.color) \o ToHex(m.color_container)
                    \o ToHex(m.on_color) \o ToHex(m.on_color_container)])

\* The string built in one buffer shared by all tasks and never cleared: a
\* task's string follows what another get_palette task has already returned.
FinalStringSharedBuffer(t) ==
    LET others == {u \in Tasks \ {t} : theme[u] # None /\ result[u] # None}
        buffer == IF others # {} THEN result[CHOOSE u \in others : TRUE].value ELSE <<>>
    IN  buffer \o BaseThemeString(theme[t], query[t].theme_type)
               \o CustomColorsString(theme[t], query[t].theme_type)

\* final_string of task t, from the task's own query and theme.
FinalString(t) ==
    BaseThemeString(theme[t], query[t].theme_type)
        \o CustomColorsString(theme[t], query[t].theme_type)

\* The handler's end without its second info line.
GeneratedEventsNone(final_string) == <<>>

\* The log lines of the handler's end.
GeneratedEvents(final_string) == <<InfoGenerated(final_string)>>

\* -------------------------------------------------------------- error adapter

\* Display of the errors a request can meet.
Display(e) ==
    IF e.kind = "ParseRgbError" THEN <<"i","n","v","a","l","i","d"," ","h","e","x"," ","c","o","l","o","r">>
    ELSE <<"F","a","i","l","e","d"," ","t","o"," ","d","e","s","e","r","i","a","l","i","z","e"," ","q","u","e","r","y"," ","s","t","r","i","n","g">>

SomethingWentWrong == <<"S","o","m","e","t","h","i","n","g"," ","w","e","n","t"," ","w","r","o","n","g",":"," ">>

\* The error logged below error severity.
ErrorEventWarn(e) == [level |-> "WARN", message |-> <<"Error occurred: {}", Display(e)>>]

\* error!("Error occurred: {}", self.0)
ErrorEvent(e) == [level |-> "ERROR", message |-> <<"Error occurred: {}", Display(e)>>]

\* The error response without the fixed prefix.
AppErrorResponseBare(e) == [status |-> 500, body |-> Display(e)]

\* (StatusCode::INTERNAL_SERVER_ERROR, format!("Something went wrong: {}", self.0))
AppErrorResponse(e) == [status |-> 500, body |-> SomethingWentWrong \o Display(e)]

\* The rejection of the Query extractor as a response.
QueryRejectionResponse(e) == [status |-> 400, body |-> Display(e)]

\* IntoResponse of what a handler call yields: a String, an AppError, or the
\* extractor's rejection.
IntoResponse(r) ==
    IF r.kind = "Ok" THEN [status |-> 200, body |-> r.value]
    ELSE IF r.kind = "AppError" THEN AppErrorResponse(r.error)
    ELSE QueryRejectionResponse(r.error)

\* TraceLayer::new_for_http(): the default on_request line.
OnRequestEvent == [level |-> "DEBUG", message |-> <<"started processing request">>]

\* TraceLayer::new_for_http(): the default on_response line and, for a response
\* the default classifier counts as a failure (status 5xx), the on_failure line.
OnResponseEvents(resp) ==
    <<[level |-> "DEBUG", message |-> <<"finished processing request">>]>>
      \o (IF resp.status >= 500
          THEN <<[level |-> "ERROR", message |-> <<"response failed">>]>>
          ELSE <<>>)

\* A trace layer that replaces error responses.
TraceLayerMasksErrors(resp) ==
    IF resp.status >= 400 THEN [status |-> 500, body |-> <<>>] ELSE resp

\* TraceLayer: the response of the inner service is passed on as it is.
TraceLayerResponse(resp) == resp


\* ---------------------------------------------------------------- actions

Init ==
    /\ pc = [t \in Tasks |-> "idle"]
    /\ request = [t \in Tasks |-> None]
    /\ matched_path = [t \in Tasks |-> None]
    /\ span = [t \in Tasks |-> None]
    /\ query = [t \in Tasks |-> None]
    /\ theme = [t \in Tasks |-> None]
    /\ result = [t \in Tasks |-> None]
    /\ response = [t \in Tasks |-> None]
    /\ events = [t \in Tasks |-> <<>>]

\* A GET request arrives and is given to a task of its own.
Receive(t) ==
    /\ pc[t] = "idle"
    /\ \E req \in Requests : request' = [request EXCEPT ![t] = req]
    /\ pc' = [pc EXCEPT ![t] = "route"]
    /\ UNCHANGED <<matched_path, span, query, theme, result, response, events>>

\* The router matches the path and records the route pattern in the request.
Route(t) ==
    /\ pc[t] = "route"
    /\ matched_path' = [matched_path EXCEPT ![t] = Some(request[t].uri.path)]
    /\ pc' = [pc EXCEPT ![t] = "layer"]
    /\ UNCHANGED <<request, span, query, theme, result, response, events>>

\* The trace layer around the matched route creates the span, then calls the route.
MakeSpan(t) ==
    /\ pc[t] = "layer"
    /\ span' = [span EXCEPT ![t] = MakeSpanWith(request[t], matched_path[t])]
    /\ events' = [events EXCEPT ![t] = Append(@, OnRequestEvent)]
    /\ pc' = [pc EXCEPT ![t] = "call"]
    /\ UNCHANGED <<request, matched_path, query, theme, result, response>>

\* hello_world runs.
HelloWorldCall(t) ==
    /\ pc[t] = "call"
    /\ ~HandlerExtractsQuery(RouteHandler(matched_path[t].some))
    /\ result' = [result EXCEPT ![t] = [kind |-> "Ok", value |-> HelloWorld]]
    /\ pc' = [pc EXCEPT ![t] = "respond"]
    /\ UNCHANGED <<request, matched_path, span, query, theme, response, events>>

\* The Query extractor runs before the handler body; on a rejection the body
\* is not entered and the rejection is the outcome.
ExtractQuery(t) ==
    /\ pc[t] = "call"
    /\ HandlerExtractsQuery(RouteHandler(matched_path[t].some))
    /\ LET q == DeserializeQuery(request[t].uri.query)
       IN  IF q.ok
           THEN /\ query' = [query EXCEPT ![t] = q.value]
                /\ pc' = [pc EXCEPT ![t] = "handler"]
                /\ UNCHANGED result
           ELSE /\ result' = [result EXCEPT ![t] = [kind |-> "Rejection", error |-> q.error]]
                /\ pc' = [pc EXCEPT ![t] = "respond"]
                /\ UNCHANGED query
    /\ UNCHANGED <<request, matched_path, span, theme, response, events>>

\* get_palette starts: the first info line.
GetPaletteEnter(t) ==
    /\ pc[t] = "handler"
    /\ events' = [events EXCEPT ![t] = Append(@, InfoGenerating(query[t]))]
    /\ pc' = [pc EXCEPT ![t] = "build"]
    /\ UNCHANGED <<request, matched_path, span, query, theme, result, response>>

\* get_palette parses the colours and builds the theme, or returns the error.
GetPaletteBuildTheme(t) ==
    /\ pc[t] = "build"
    /\ LET b == GetPaletteBuild(query[t])
       IN  IF b.ok
           THEN /\ theme' = [theme EXCEPT ![t] = b.value]
                /\ pc' = [pc EXCEPT ![t] = "format"]
                /\ UNCHANGED result
           ELSE /\ result' = [result EXCEPT ![t] = [kind |-> "AppError", error |-> b.error]]
                /\ pc' = [pc EXCEPT ![t] = "into_response"]
                /\ UNCHANGED theme
    /\ UNCHANGED <<request, matched_path, span, query, response, events>>

\* get_palette formats the theme, logs the second info line and returns Ok.
GetPaletteFormat(t) ==
    /\ pc[t] = "format"
    /\ LET final_string == FinalString(t)
       IN  /\ events' = [events EXCEPT ![t] = @ \o GeneratedEvents(final_string)]
           /\ result' = [result EXCEPT ![t] = [kind |-> "Ok", value |-> final_string]]
    /\ pc' = [pc EXCEPT ![t] = "respond"]
    /\ UNCHANGED <<request, matched_path, span, query, theme, response>>

\* AppError::into_response starts: the error line.
AppErrorLog(t) ==
    /\ pc[t] = "into_response"
    /\ events' = [events EXCEPT ![t] = Append(@, ErrorEvent(result[t].error))]
    /\ pc' = [pc EXCEPT ![t] = "respond"]
    /\ UNCHANGED <<request, matched_path, span, query, theme, result, response>>

\* The outcome becomes the response, which passes the trace layer and is sent.
Respond(t) ==
    /\ pc[t] = "respond"
    /\ LET resp == IntoResponse(result[t])
       IN  /\ events' = [events EXCEPT ![t] = @ \o OnResponseEvents(resp)]
           /\ response' = [response EXCEPT ![t] = TraceLayerResponse(resp)]
    /\ pc' = [pc EXCEPT ![t] = "done"]
    /\ UNCHANGED <<request, matched_path, span, query, theme, result>>

Next ==
    \E t \in Tasks :
        \/ Receive(t)
        \/ Route(t)
        \/ MakeSpan(t)
        \/ HelloWorldCall(t)
        \/ ExtractQuery(t)
        \/ GetPaletteEnter(t)
        \/ GetPaletteBuildTheme(t)
        \/ GetPaletteFormat(t)
        \/ AppErrorLog(t)
        \/ Respond(t)

Spec == Init /\ [][Next]_vars


\* ------------------------------------------------------- claim vocabulary

Done(t) == pc[t] = "done"

IsGetPalette(t) == request[t] # None /\ request[t].uri.path = "/getPalette"

IsRoot(t) == request[t] # None /\ request[t].uri.path = "/"

BaseColorOf(t) == request[t].uri.query.base_color

ThemeTypeOf(t) == request[t].uri.query.theme_type

\* A base_color of exactly six hex digits.
SixHexDigits(s) == Len(s) = 6 /\ AllHex(s)

ValidThemeType(s) == s \in {"Dark", "Light"}

\* The j-th six-character block of a body.
Block(body, j) == SubSeq(body, 6 * (j - 1) + 1, 6 * j)

HasPrefix(body, prefix) ==
    Len(body) >= Len(prefix) /\ SubSeq(body, 1, Len(prefix)) = prefix

\* The theme the provider gives for the request of task t.
ProviderTheme(t) ==
    ThemeBuild(ArgbFromStr(BaseColorOf(t)).value,
               [k \in 1..Len(CustomColorSpecs) |->
                  [value |-> ArgbFromStr(CustomColorSpecs[k].hex).value,
                   name  |-> CustomColorSpecs[k].name,
                   blend |-> CustomColorSpecs[k].blend]])

Succeeded(t) == Done(t) /\ IsGetPalette(t) /\ response[t].status = 200

\* The lines of a level among the events of task t, in order.
EventsAt(t, level) == SelectSeq(events[t], LAMBDA e : e.level = level)

\* ------------------------------------------------------------------ C1

\* C1: a /getPalette request with a six-hex-digit base_color and theme_type
\* Dark or Light is answered 200 with a body of hexadecimal characters only,
\* of length 6 * (number of scheme roles + 4 * 7).
C1_ValidRequestBody ==
    \A t \in Tasks :
        (Done(t) /\ IsGetPalette(t) /\ SixHexDigits(BaseColorOf(t))
                 /\ ValidThemeType(ThemeTypeOf(t)))
        => /\ response[t].status = 200
           /\ AllHex(response[t].body)
           /\ Len(response[t].body) = 6 * (NumSchemeRoles + 4 * 7)

C1_Witness ==
    \E t \in Tasks :
        /\ Done(t) /\ IsGetPalette(t) /\ SixHexDigits(BaseColorOf(t))
        /\ ThemeTypeOf(t) = "Dark"
        /\ response[t].status = 200 /\ Len(response[t].body) > 0

\* ------------------------------------------------------------------ C2

\* C2: a /getPalette request with a valid theme_type whose base_color does not
\* parse as a hex colour is answered 500 with a body starting with
\* "Something went wrong:", and no palette string is returned.
C2_BadColorIs500 ==
    \A t \in Tasks :
        (Done(t) /\ IsGetPalette(t) /\ ValidThemeType(ThemeTypeOf(t))
                 /\ ~ArgbFromStr(BaseColorOf(t)).ok)
        => /\ response[t].status = 500
           /\ HasPrefix(response[t].body, <<"S","o","m","e","t","h","i","n","g"," ","w","e","n","t"," ","w","r","o","n","g",":">>)
           /\ result[t].kind # "Ok"
           /\ theme[t] = None

\* Two failing requests have been answered: the empty string and a string
\* with characters that are no hex digits (or of odd length).
C2_Witness ==
    /\ \E t \in Tasks :
          /\ Done(t) /\ IsGetPalette(t) /\ ValidThemeType(ThemeTypeOf(t))
          /\ BaseColorOf(t) = <<>> /\ response[t].status = 500
    /\ \E t \in Tasks :
          /\ Done(t) /\ IsGetPalette(t) /\ ValidThemeType(ThemeTypeOf(t))
          /\ BaseColorOf(t) \in {<<"z","z","z","z","z","z">>, <<"F","F","0","0","0">>}
          /\ response[t].status = 500

\* ------------------------------------------------------------------ C3

ModeOf(group, theme_type) == IF theme_type = "Dark" THEN group.dark ELSE group.light

\* C4: a successful body is positional: block i (i up to the number of scheme
\* roles) is the hex of the i-th role of the scheme in the provider's order;
\* after all of them come the custom colours red, green, blue, yellow, purple,
\* cyan, orange, each as four blocks color, color-container, on-color,
\* on-color-container; nothing separates the blocks.
C4_BodyIsPositional ==
    \A t \in Tasks :
        Succeeded(t) =>
            LET th == ProviderTheme(t)
                tt == ThemeTypeOf(t)
                scheme == IF tt = "Dark" THEN th.schemes.dark ELSE th.schemes.light
                body == response[t].body
                names == <<"red", "green", "blue", "yellow", "purple", "cyan", "orange">>
                roles == <<"color", "color_container", "on_color", "on_color_container">>
            IN  /\ \A i \in 1..NumSchemeRoles :
                      /\ scheme[i][1] = i
                      /\ Block(body, i) = ToHex(scheme[i][2])
                /\ \A k \in 1..7 :
                      /\ th.custom_colors[k].color.name = names[k]
                      /\ \A j \in 1..4 :
                            Block(body, NumSchemeRoles + 4 * (k - 1) + j)
                              = ToHex(ModeOf(th.custom_colors[k], tt)[roles[j]])
                /\ Len(body) = 6 * (NumSchemeRoles + 4 * 7)

C4_Witness ==
    \E t \in Tasks :
        /\ Succeeded(t) /\ ThemeTypeOf(t) = "Light"
        /\ BaseColorOf(t) = <<"0","A","5","B","C","7">>
        /\ Block(response[t].body, NumSchemeRoles + 2)
             # Block(response[t].body, NumSchemeRoles + 3)

\* ------------------------------------------------------------------ C5

C6_RootIsHello ==
    \A t \in Tasks :
        (Done(t) /\ IsRoot(t))
        => /\ response[t].status = 200
           /\ response[t].body = <<"H","e","l","l","o",","," ","w","o","r","l","d","!">>
           /\ result[t].kind = "Ok"
           /\ EventsAt(t, "ERROR") = <<>>

C6_Witness ==
    \E t, u \in Tasks :
        /\ t # u /\ Done(t) /\ IsRoot(t) /\ response[t].status = 200
        /\ ThemeTypeOf(t) = "Purple" /\ BaseColorOf(t) = <<>>
        /\ Done(u) /\ IsGetPalette(u) /\ response[u].status = 500

\* ------------------------------------------------------------------ C7

ErrorLogged(t) ==
    \E i \in 1..Len(events[t]) :
        /\ events[t][i].level = "ERROR"
        /\ events[t][i].message = <<"Error occurred: {}", Display(result[t].error)>>

C8_OneModeThroughout ==
    \A t \in Tasks :
        Succeeded(t) =>
            LET th == ProviderTheme(t)
                body == response[t].body
                schemePart == SubSeq(body, 1, 6 * NumSchemeRoles)
                customPart == SubSeq(body, 6 * NumSchemeRoles + 1, Len(body))
                schemeHex(sc) == Concat([i \in 1..NumSchemeRoles |-> ToHex(sc[i][2])])
                customHex(dark) ==
                    Concat([k \in 1..7 |->
                              LET m == IF dark THEN th.custom_colors[k].dark
                                       ELSE th.custom_colors[k].light
                              IN  ToHex(m.color) \o ToHex(m.color_container)
                                    \o ToHex(m.on_color) \o ToHex(m.on_color_container)])
            IN  /\ ThemeTypeOf(t) = "Dark"
                     => /\ schemePart = schemeHex(th.schemes.dark)
                        /\ customPart = customHex(TRUE)
                /\ ThemeTypeOf(t) = "Light"
                     => /\ schemePart = schemeHex(th.schemes.light)
                        /\ customPart = customHex(FALSE)

\* A Dark and a Light answer for the same colour, differing in both parts.
C8_Witness ==
    \E t, u \in Tasks :
        /\ Succeeded(t) /\ Succeeded(u) /\ BaseColorOf(t) = BaseColorOf(u)
        /\ ThemeTypeOf(t) = "Dark" /\ ThemeTypeOf(u) = "Light"
        /\ SubSeq(response[t].body, 1, 6 * NumSchemeRoles)
             # SubSeq(response[u].body, 1, 6 * NumSchemeRoles)
        /\ SubSeq(response[t].body, 6 * NumSchemeRoles + 1, Len(response[t].body))
             # SubSeq(response[u].body, 6 * NumSchemeRoles + 1, Len(response[u].body))

\* ------------------------------------------------------------------ C9

InfoEvents(t) == EventsAt(t, "INFO")

IsGenerating(e) == e.message[1] = "Generating {:?} theme with color string {:?}"

IsGenerated(e) == e.message[1] = "Generated theme: {:?}"

\* C9: a successful request has exactly two info lines: the one with the theme
\* parameters, emitted before the provider is invoked, and the one with the
\* final string, emitted after it and before the response.  A request that
\* fails inside the handler never emits the second line and returns no part of
\* a palette string.
C9_TwoInfoLinesOrNone ==
    \A t \in Tasks :
        /\ Succeeded(t)
             => InfoEvents(t) = << [level |-> "INFO",
                                    message |-> <<"Generating {:?} theme with color string {:?}",
                                                  ThemeTypeOf(t), BaseColorOf(t)>>],
                                   [level |-> "INFO",
                                    message |-> <<"Generated theme: {:?}", response[t].body>>] >>
        /\ theme[t] # None
             => Len(InfoEvents(t)) >= 1 /\ IsGenerating(InfoEvents(t)[1])
        /\ (pc[t] = "respond" /\ IsGetPalette(t) /\ result[t].kind = "Ok")
             => Len(InfoEvents(t)) = 2 /\ IsGenerated(InfoEvents(t)[2])
        /\ (\E i \in 1..Len(InfoEvents(t)) : IsGenerated(InfoEvents(t)[i]))
             => theme[t] # None /\ result[t] # None /\ result[t].kind = "Ok"
        /\ (result[t] # None /\ result[t].kind = "AppError")
             => /\ \A i \in 1..Len(InfoEvents(t)) : ~IsGenerated(InfoEvents(t)[i])
                /\ theme[t] = None
                /\ Done(t) => response[t].body = SomethingWentWrong \o Display(result[t].error)

C9_Witness ==
    /\ \E t \in Tasks : Succeeded(t) /\ Len(InfoEvents(t)) = 2
    /\ \E t \in Tasks : Done(t) /\ result[t].kind = "AppError" /\ Len(InfoEvents(t)) = 1

\* ------------------------------------------------------------------ C10

SpanCarries(t) ==
    /\ span[t].method = "GET"
    /\ span[t].uri = request[t].uri
    /\ span[t].matched_path = Some(request[t].uri.path)

\* C10 as stated: every request has a span carrying method, URI and matched
\* route pattern that exists before routing executes, errors or not, and the
\* response is the one the handler or the error adapter produced.
C10_SpanBeforeRouting ==
    \A t \in Tasks :
        /\ matched_path[t] # None => span[t] # None /\ SpanCarries(t)
        /\ response[t] # None => response[t] = IntoResponse(result[t])

\* C10 as amended: every request that matches a route has a span carrying
\* method, URI and matched route pattern, created after the router has matched
\* the route and before the handler and its extractor run, errors or not, and
\* the response is the one the handler, its extractor or the error adapter
\* produced.
C10_SpanAfterRouting ==
    \A t \in Tasks :
        /\ span[t] # None => matched_path[t] # None /\ SpanCarries(t)
        /\ (query[t] # None \/ result[t] # None \/ events[t] # <<>> \/ response[t] # None)
             => span[t] # None
        /\ response[t] # None => response[t] = IntoResponse(result[t])

C10_Witness ==
    /\ \E t \in Tasks : Done(t) /\ response[t].status = 500 /\ span[t] # None
    /\ \E t \in Tasks : Done(t) /\ response[t].status = 200 /\ span[t] # None

====
